---- MODULE Spec2Model ----
(***************************************************************************)
(* Model of packages/runner-ct/src/app/SpecList/makeFileHierarchy.ts:      *)
(* the depth-grouped walker (getAllFolders, getAllFileNodes,               *)
(* makeFileHierarchy) and the incremental trie builder (buildTree,         *)
(* convertTree).                                                           *)
(*                                                                         *)
(* A JavaScript string is a sequence of one-character strings, so that     *)
(* split, join, includes, startsWith and charCount are computed character  *)
(* by character.  A JavaScript array is a sequence (index 1 here is index  *)
(* 0 there).  A plain object is the ordered list of its own properties     *)
(* (insertion order) on top of Object.prototype.  A call either returns a  *)
(* value (Returned) or throws a TypeError.                                 *)
(***************************************************************************)
EXTENDS Naturals, Sequences, FiniteSets

VARIABLES files, folders, fileNodes, forest, tree

vars == <<files, folders, fileNodes, forest, tree>>

----------------------------------------------------------------------------
(* Strings *)

Slash == "/"
Dot == "."

Range(s) == {s[i] : i \in 1..Len(s)}

\* String.prototype.includes(letter) for a one-character argument
includes(str, letter) == \E i \in 1..Len(str) : str[i] = letter

\* String.prototype.startsWith(prefix)
startsWith(str, prefix) ==
  /\ Len(prefix) <= Len(str)
  /\ \A i \in 1..Len(prefix) : str[i] = prefix[i]

\* String.prototype.split(sep) for a one-character separator: always at
\* least one part; ''.split('/') is [''].
RECURSIVE split(_, _)
split(str, sep) ==
  IF ~includes(str, sep)
  THEN <<str>>
  ELSE LET i == CHOOSE k \in 1..Len(str) :
                  str[k] = sep /\ \A j \in 1..(k - 1) : str[j] # sep
       IN <<SubSeq(str, 1, i - 1)>> \o split(SubSeq(str, i + 1, Len(str)), sep)

\* Array.prototype.join(sep); [].join('/') is ''.
RECURSIVE join(_, _)
join(parts, sep) ==
  IF Len(parts) = 0 THEN <<>>
  ELSE IF Len(parts) = 1 THEN parts[1]
  ELSE parts[1] \o <<sep>> \o join(Tail(parts), sep)

\* Array.prototype.slice(0, n)
slice(arr, n) == SubSeq(arr, 1, n)

\* Array.prototype.reverse()
reverse(arr) == [i \in 1..Len(arr) |-> arr[Len(arr) + 1 - i]]

RECURSIVE charCountFrom(_, _, _)
charCountFrom(str, letter, position) ==
  IF position > Len(str) THEN 0
  ELSE (IF str[position] = letter THEN 1 ELSE 0)
       + charCountFrom(str, letter, position + 1)

\* charCount with a comparison that never matches the letter
charCount_NoMatch(str, letter) == 0

charCount(str, letter) == charCountFrom(str, letter, 1)

----------------------------------------------------------------------------
(* Plain objects and Sets *)

\* The property names every plain object inherits from Object.prototype.
\* Each inherited value is a function or an object: truthy, and without
\* concat, map, files or folders.
ObjectPrototypeKeys ==
  { <<"c", "o", "n", "s", "t", "r", "u", "c", "t", "o", "r">>,
    <<"t", "o", "S", "t", "r", "i", "n", "g">>,
    <<"t", "o", "L", "o", "c", "a", "l", "e", "S", "t", "r", "i", "n", "g">>,
    <<"v", "a", "l", "u", "e", "O", "f">>,
    <<"h", "a", "s", "O", "w", "n", "P", "r", "o", "p", "e", "r", "t", "y">>,
    <<"i", "s", "P", "r", "o", "t", "o", "t", "y", "p", "e", "O", "f">>,
    <<"p", "r", "o", "p", "e", "r", "t", "y", "I", "s", "E", "n", "u", "m",
      "e", "r", "a", "b", "l", "e">>,
    <<"_", "_", "p", "r", "o", "t", "o", "_", "_">>,
    <<"_", "_", "d", "e", "f", "i", "n", "e", "G", "e", "t", "t", "e", "r", "_", "_">>,
    <<"_", "_", "d", "e", "f", "i", "n", "e", "S", "e", "t", "t", "e", "r", "_", "_">>,
    <<"_", "_", "l", "o", "o", "k", "u", "p", "G", "e", "t", "t", "e", "r", "_", "_">>,
    <<"_", "_", "l", "o", "o", "k", "u", "p", "S", "e", "t", "t", "e", "r", "_", "_">> }

\* obj is a sequence of [key, value] entries, one per own property.
hasOwn(obj, key) == \E i \in 1..Len(obj) : obj[i].key = key

ownIndex(obj, key) == CHOOSE i \in 1..Len(obj) : obj[i].key = key

\* obj[key] read: an own property, else an inherited one, else undefined.
lookup(obj, key) ==
  IF hasOwn(obj, key) THEN [kind |-> "own", value |-> obj[ownIndex(obj, key)].value]
  ELSE IF key \in ObjectPrototypeKeys THEN [kind |-> "inherited", value |-> <<>>]
  ELSE [kind |-> "undefined", value |-> <<>>]

\* `key in obj`: own or inherited.
hasProperty(obj, key) == hasOwn(obj, key) \/ key \in ObjectPrototypeKeys

\* obj[key] = value on an own property or a new one (appended last).
assign(obj, key, value) ==
  IF hasOwn(obj, key)
  THEN [obj EXCEPT ![ownIndex(obj, key)] = [key |-> key, value |-> value]]
  ELSE Append(obj, [key |-> key, value |-> value])

\* a Set that keeps duplicates, as an array with push would
setAdd_NoDedup(set, x) == Append(set, x)

\* Set.prototype.add on a Set kept as the sequence of its members in
\* insertion order.
setAdd(set, x) == IF x \in Range(set) THEN set ELSE Append(set, x)

\* A call's result: a returned value or a thrown TypeError.
Returned(v) == [threw |-> FALSE, value |-> v]
TypeError == [threw |-> TRUE, value |-> <<>>]

----------------------------------------------------------------------------
(* getAllFolders *)

\* the inner loop from index i on: adds dirOnly.slice(0, i + 1).join('/')
RECURSIVE addPrefixes(_, _, _)
addPrefixes(dirs, dirOnly, i) ==
  IF i > Len(dirOnly) THEN dirs
  ELSE addPrefixes(setAdd(dirs, join(slice(dirOnly, i), Slash)), dirOnly, i + 1)

\* one iteration of the loop over files
foldersOfFile(dirs, file) ==
  LET path == split(file, Slash)
      hasFileNode == includes(path[Len(path)], Dot)
      dirOnly == IF hasFileNode THEN slice(path, Len(path) - 1) ELSE path
  IN addPrefixes(dirs, dirOnly, 1)

RECURSIVE getAllFoldersFrom(_, _, _)
getAllFoldersFrom(dirs, fs, n) ==
  IF n > Len(fs) THEN dirs
  ELSE getAllFoldersFrom(foldersOfFile(dirs, fs[n]), fs, n + 1)

getAllFolders(fs) == getAllFoldersFrom(<<>>, fs, 1)

----------------------------------------------------------------------------
(* getAllFileNodes *)

\* one iteration of the loop over files
fileNodesOfFile(allFileNodes, file) ==
  LET parts == split(file, Slash)
      isFileNode == includes(parts[Len(parts)], Dot)
      isRoot == Len(parts) = 1
      isFileNodeInFolderNode == Len(parts) > 1 /\ includes(parts[Len(parts)], Dot)
      name == parts[Len(parts)]
      dir == join(slice(parts, Len(parts) - 1), Slash)
      found == lookup(allFileNodes, dir)
      afterFolder ==
        IF ~isFileNodeInFolderNode THEN Returned(allFileNodes)
        ELSE IF found.kind = "undefined"
             THEN Returned(assign(allFileNodes, dir, <<name>>))
        ELSE IF found.kind = "inherited"
             THEN TypeError   \* allFileNodes[dir].concat is not a function
        ELSE Returned(assign(allFileNodes, dir, Append(found.value, name)))
  IN IF afterFolder.threw THEN afterFolder
     ELSE IF isFileNode /\ isRoot
          THEN Returned(assign(afterFolder.value, <<Slash>>,
                    Append(lookup(afterFolder.value, <<Slash>>).value, file)))
          ELSE afterFolder

RECURSIVE getAllFileNodesFrom(_, _, _)
getAllFileNodesFrom(acc, fs, n) ==
  IF acc.threw \/ n > Len(fs) THEN acc
  ELSE getAllFileNodesFrom(fileNodesOfFile(acc.value, fs[n]), fs, n + 1)

getAllFileNodes(fs) ==
  getAllFileNodesFrom(Returned(<<[key |-> <<Slash>>, value |-> <<>>]>>), fs, 1)

----------------------------------------------------------------------------
(* makeFileHierarchy *)

\* acc[count] on the Record<number, string[]> built by the reduce
lookupCount(acc, count) ==
  IF hasOwn(acc, count)
  THEN [kind |-> "own", value |-> acc[ownIndex(acc, count)].value]
  ELSE [kind |-> "undefined", value |-> <<>>]

\* the reducer: groups the folder paths by their number of '/'
byLengthStep(acc, curr) ==
  LET count == charCount(curr, Slash)
      seen == lookupCount(acc, count)
  IN IF seen.kind = "undefined"
     THEN assign(acc, count, <<curr>>)
     ELSE assign(acc, count, Append(seen.value, curr))

RECURSIVE foldersByLengthFrom(_, _, _)
foldersByLengthFrom(acc, allFolderNodes, n) ==
  IF n > Len(allFolderNodes) THEN acc
  ELSE foldersByLengthFrom(byLengthStep(acc, allFolderNodes[n]), allFolderNodes, n + 1)

foldersByLength(allFolderNodes) == foldersByLengthFrom(<<>>, allFolderNodes, 1)

\* the filter of the next depth's folders: x.startsWith(dir)
nestedFilter(x, dir) == startsWith(x, dir)

\* containedFileNodes with `relative` built as dir + file, the separator
\* forgotten
containedFileNodes_NoSeparator(dir, allFileNodes) ==
  LET found == lookup(allFileNodes, dir)
  IN IF found.kind = "inherited"
     THEN TypeError
     ELSE Returned([i \in 1..Len(found.value) |->
            [type |-> "file",
             name |-> found.value[i],
             relative |-> dir \o found.value[i]]])

\* (allFileNodes[dir] || []).map(file => FileNode)
containedFileNodes(dir, allFileNodes) ==
  LET found == lookup(allFileNodes, dir)
  IN IF found.kind = "inherited"
     THEN TypeError   \* the inherited value has no map
     ELSE Returned([i \in 1..Len(found.value) |->
            [type |-> "file",
             name |-> found.value[i],
             relative |-> dir \o <<Slash>> \o found.value[i]]])

\* dirname without the reverse(): the first segment, not the last
dirname_First(dir) == split(dir, Slash)[1]

\* dir.split('/').reverse()[0]
dirname(dir) == reverse(split(dir, Slash))[1]

\* walk(dirs, depth): dirs is the array, or undefined (kind "undefined")
\* when foldersByLength has no such depth.  walkFrom is dirs.map from
\* element n on; a throw in one element ends the call.
RECURSIVE walk(_, _, _, _)
RECURSIVE walkFrom(_, _, _, _, _)
\* walk without the `if (!dirs)` guard: undefined.map throws
walk_NoGuard(dirs, depth, byLength, allFileNodes) ==
  IF dirs.kind = "undefined" THEN TypeError
  ELSE walkFrom(dirs.value, 1, depth, byLength, allFileNodes)

walk(dirs, depth, byLength, allFileNodes) ==
  IF dirs.kind = "undefined" THEN Returned(<<>>)
  ELSE walkFrom(dirs.value, 1, depth, byLength, allFileNodes)

walkFrom(dirs, n, depth, byLength, allFileNodes) ==
  IF n > Len(dirs) THEN Returned(<<>>)
  ELSE
    LET dir == dirs[n]
        next == lookupCount(byLength, depth + 1)
        nestedDirs ==
          IF next.kind = "own"
          THEN walk([kind |-> "own",
                     value |-> SelectSeq(next.value, LAMBDA x : nestedFilter(x, dir))],
                    depth + 1, byLength, allFileNodes)
          ELSE Returned(<<>>)
        contained == containedFileNodes(dir, allFileNodes)
        rest == walkFrom(dirs, n + 1, depth, byLength, allFileNodes)
    IN IF nestedDirs.threw \/ contained.threw \/ rest.threw THEN TypeError
       ELSE Returned(<<[name |-> dirname(dir),
                        files |-> nestedDirs.value \o contained.value,
                        type |-> "folder",
                        relative |-> dir]>> \o rest.value)

makeFileHierarchy(fs) ==
  LET allFolderNodes == getAllFolders(fs)
      allFileNodes == getAllFileNodes(fs)
      byLength == foldersByLength(allFolderNodes)
  IN IF allFileNodes.threw THEN TypeError
     ELSE walk(lookupCount(byLength, 0), 0, byLength, allFileNodes.value)

----------------------------------------------------------------------------
(* buildTree and convertTree *)

DigitValue ==
  [c \in {"0", "1", "2", "3", "4", "5", "6", "7", "8", "9"} |->
     CASE c = "0" -> 0 [] c = "1" -> 1 [] c = "2" -> 2 [] c = "3" -> 3
       [] c = "4" -> 4 [] c = "5" -> 5 [] c = "6" -> 6 [] c = "7" -> 7
       [] c = "8" -> 8 [] c = "9" -> 9]

RECURSIVE toNumber(_)
toNumber(key) ==
  IF Len(key) = 0 THEN 0
  ELSE 10 * toNumber(SubSeq(key, 1, Len(key) - 1)) + DigitValue[key[Len(key)]]

\* An integer-index property key: a canonical decimal string.  (The keys
\* here are far below the 2^32 - 2 limit of an array index.)
isIntegerIndex(key) ==
  /\ Len(key) >= 1
  /\ \A i \in 1..Len(key) : key[i] \in DOMAIN DigitValue
  /\ (Len(key) > 1 => key[1] # "0")

RECURSIVE ascending(_)
ascending(entries) ==
  IF Len(entries) = 0 THEN <<>>
  ELSE LET m == CHOOSE i \in 1..Len(entries) :
                  \A j \in 1..Len(entries) :
                     toNumber(entries[i].key) <= toNumber(entries[j].key)
       IN <<entries[m]>> \o
          ascending(SubSeq(entries, 1, m - 1) \o SubSeq(entries, m + 1, Len(entries)))

\* own property order: integer-index keys in ascending numeric order, then
\* the other string keys in the order they were created
ownEntries(obj) ==
  ascending(SelectSeq(obj, LAMBDA e : isIntegerIndex(e.key)))
    \o SelectSeq(obj, LAMBDA e : ~isIntegerIndex(e.key))

\* Object.values(obj)
objectValues(obj) ==
  LET es == ownEntries(obj) IN [i \in 1..Len(es) |-> es[i].value]

RECURSIVE convertTree(_)
convertTree(folder) ==
  LET subs == objectValues(folder.folders)
  IN [id |-> folder.path,
      name |-> folder.name,
      children |->
        [i \in 1..Len(subs) |-> convertTree(subs[i])]
          \o [i \in 1..Len(folder.files) |->
                [id |-> folder.files[i].path, name |-> folder.files[i].name]]]

\* the name of the root folder: rootName ?? '/'
rootName(rootDirectory) ==
  LET rootPathParts == split(rootDirectory, Slash)
      lastRootPart == rootPathParts[Len(rootPathParts)]
      name == IF Len(lastRootPart) > 0
              THEN [kind |-> "own", value |-> lastRootPart]
              ELSE IF Len(rootPathParts) > 1
                   THEN [kind |-> "own", value |-> rootPathParts[Len(rootPathParts) - 1]]
                   ELSE [kind |-> "undefined", value |-> <<>>]
  IN IF name.kind = "undefined" THEN <<Slash>> ELSE name.value

\* `part in parentDirectory.folders`
partInFolders(parentDirectory, part) == hasProperty(parentDirectory.folders, part)

\* the inner loop from part i on, as the folder that results from it
\* (parentDirectory is mutated in place in the source)
RECURSIVE insertPath(_, _, _, _)
insertPath(parentDirectory, pathParts, i, filePath) ==
  LET part == pathParts[i] IN
  IF i = Len(pathParts)
  THEN Returned([parentDirectory EXCEPT
                   !.files = Append(@, [path |-> filePath, name |-> part])])
  ELSE IF partInFolders(parentDirectory, part)
  THEN IF ~hasOwn(parentDirectory.folders, part)
       THEN TypeError   \* an inherited value: it has no files and no folders
       ELSE LET sub == insertPath(lookup(parentDirectory.folders, part).value,
                                  pathParts, i + 1, filePath)
            IN IF sub.threw THEN TypeError
               ELSE Returned([parentDirectory EXCEPT
                                !.folders = assign(@, part, sub.value)])
  ELSE LET newDirectory == [path |-> join(slice(pathParts, i), Slash),
                            name |-> part,
                            files |-> <<>>,
                            folders |-> <<>>]
           sub == insertPath(newDirectory, pathParts, i + 1, filePath)
       IN IF sub.threw THEN TypeError
          ELSE Returned([parentDirectory EXCEPT
                           !.folders = assign(@, part, sub.value)])

RECURSIVE buildFrom(_, _, _)
buildFrom(acc, filePaths, n) ==
  IF acc.threw \/ n > Len(filePaths) THEN acc
  ELSE buildFrom(insertPath(acc.value, split(filePaths[n], Slash), 1, filePaths[n]),
                 filePaths, n + 1)

buildTree(filePaths, rootDirectory) ==
  LET rootFolder == [path |-> rootDirectory,
                     name |-> rootName(rootDirectory),
                     files |-> <<>>,
                     folders |-> <<>>]
      built == buildFrom(Returned(rootFolder), filePaths, 1)
  IN IF built.threw THEN TypeError ELSE Returned(convertTree(built.value))

----------------------------------------------------------------------------
(* Inputs *)

\* the longest input sequence drawn (besides the documented example)
MaxFiles == 2

Str_a == <<"a">>
Str_ab == <<"a", "b">>
Str_b == <<"b">>
Str_c == <<"c">>
Str_y == <<"y">>
Str_1 == <<"1">>
Str_2 == <<"2">>
Str_cd == <<"c", ".", "d">>
Str_ef == <<"e", ".", "f">>
Str_foo == <<"f", "o", "o">>
Str_bar == <<"b", "a", "r">>
Str_foojs == <<"f", "o", "o", ".", "j", "s">>
Str_barjs == <<"b", "a", "r", ".", "j", "s">>
Str_root == <<"r", "o", "o", "t">>
Str_constructor == <<"c", "o", "n", "s", "t", "r", "u", "c", "t", "o", "r">>
Empty == <<>>

\* a path written as the list of its segments
P(segments) == join(segments, Slash)

\* The paths the inputs are drawn from: a root-level file, pure directory
\* entries, files one and two folders deep, a folder whose name extends
\* another folder's name, folders named by decimal digits, a folder named
\* like a member of Object.prototype, and a path with empty segments.
Paths ==
  { P(<<Str_cd>>),                     \* 'c.d'
    P(<<Str_a>>),                      \* 'a'
    P(<<Str_a, Str_b>>),               \* 'a/b'
    P(<<Str_a, Str_cd>>),              \* 'a/c.d'
    P(<<Str_a, Str_ef>>),              \* 'a/e.f'
    P(<<Str_a, Str_b, Str_cd>>),       \* 'a/b/c.d'
    P(<<Str_ab, Str_b, Str_cd>>),      \* 'ab/b/c.d'
    P(<<Str_2, Str_cd>>),              \* '2/c.d'
    P(<<Str_1, Str_cd>>),              \* '1/c.d'
    P(<<Str_constructor, Str_cd>>),    \* 'constructor/c.d'
    P(<<Empty, Empty, Str_ef>>) }      \* '//e.f'

\* the example of the getAllFolders comment:
\* ['foo.js', 'foo/y/bar.js', 'foo/bar', 'a/b/c']
ExampleFiles ==
  << P(<<Str_foojs>>),
     P(<<Str_foo, Str_y, Str_barjs>>),
     P(<<Str_foo, Str_bar>>),
     P(<<Str_a, Str_b, Str_c>>) >>

RootDirectories ==
  { Str_root,                          \* 'root'
    P(<<Str_a, Str_b>>),               \* 'a/b'
    P(<<Str_a, Str_b, Empty>>),        \* 'a/b/'
    P(<<Str_a, Empty, Empty>>),        \* 'a//'
    P(<<Empty, Empty>>),               \* '/'
    Empty }                            \* ''

Inputs ==
  UNION {[1..n -> Paths] : n \in 0..MaxFiles} \cup {ExampleFiles}

----------------------------------------------------------------------------
(* The calls *)

NotCalled == [called |-> FALSE, threw |-> FALSE, value |-> <<>>, rootDirectory |-> <<>>]

Called(outcome, rootDirectory) ==
  [called |-> TRUE, threw |-> outcome.threw, value |-> outcome.value,
   rootDirectory |-> rootDirectory]

Init ==
  /\ files \in Inputs
  /\ folders = NotCalled
  /\ fileNodes = NotCalled
  /\ forest = NotCalled
  /\ tree = NotCalled

GetAllFolders ==
  /\ ~folders.called
  /\ folders' = Called(Returned(getAllFolders(files)), <<>>)
  /\ UNCHANGED <<files, fileNodes, forest, tree>>

GetAllFileNodes ==
  /\ ~fileNodes.called
  /\ fileNodes' = Called(getAllFileNodes(files), <<>>)
  /\ UNCHANGED <<files, folders, forest, tree>>

MakeFileHierarchy ==
  /\ ~forest.called
  /\ forest' = Called(makeFileHierarchy(files), <<>>)
  /\ UNCHANGED <<files, folders, fileNodes, tree>>

BuildTree ==
  /\ ~tree.called
  /\ \E rootDirectory \in RootDirectories :
       tree' = Called(buildTree(files, rootDirectory), rootDirectory)
  /\ UNCHANGED <<files, folders, fileNodes, forest>>

Next == GetAllFolders \/ GetAllFileNodes \/ MakeFileHierarchy \/ BuildTree

Spec == Init /\ [][Next]_vars

----------------------------------------------------------------------------
(* Reading the results *)

forestReturned == forest.called /\ ~forest.threw
treeReturned == tree.called /\ ~tree.threw

isFolder(node) == "children" \in DOMAIN node

\* Every node of a forest with its enclosing folders: `chain` is the list
\* of the relatives of the FolderNodes from the top level down to the
\* node's direct parent.
RECURSIVE forestNodes(_, _)
forestNodes(nodes, chain) ==
  IF Len(nodes) = 0 THEN <<>>
  ELSE LET h == Head(nodes)
       IN <<[node |-> h, chain |-> chain]>>
          \o (IF h.type = "folder"
              THEN forestNodes(h.files, Append(chain, h.relative))
              ELSE <<>>)
          \o forestNodes(Tail(nodes), chain)

forestFileNodes(nodes) ==
  SelectSeq(forestNodes(nodes, <<>>), LAMBDA e : e.node.type = "file")

forestFolderNodes(nodes) ==
  SelectSeq(forestNodes(nodes, <<>>), LAMBDA e : e.node.type = "folder")

\* the ids of the TreeFile leaves of a tree
RECURSIVE leafIds(_)
leafIds(node) ==
  IF ~isFolder(node) THEN {node.id}
  ELSE UNION {leafIds(node.children[i]) : i \in 1..Len(node.children)}

\* every TreeFolder of a tree
RECURSIVE treeFolders(_)
treeFolders(node) ==
  IF ~isFolder(node) THEN {}
  ELSE {node} \cup UNION {treeFolders(node.children[i]) : i \in 1..Len(node.children)}

\* every list of siblings of a forest: the top level and each `files` list
siblingLists(nodes) ==
  {nodes} \cup {e.node.files : e \in Range(forestFolderNodes(nodes))}

count(seq, Test(_)) == Cardinality({i \in 1..Len(seq) : Test(seq[i])})

lastSegment(path) == LET parts == split(path, Slash) IN parts[Len(parts)]

\* a path with at least one directory segment and a last segment holding a '.'
isNestedFile(path) ==
  Len(split(path, Slash)) > 1 /\ includes(lastSegment(path), Dot)

\* the path without its last segment
parentPath(path) ==
  LET parts == split(path, Slash) IN join(SubSeq(parts, 1, Len(parts) - 1), Slash)

----------------------------------------------------------------------------
(* C1 *)

----------------------------------------------------------------------------
(* C2 *)

\* C2 as stated: for every sequence of non-empty paths and every root
\* directory, buildTree returns a tree whose TreeFile leaves carry exactly
\* the input paths as their ids.
C2_LeafIdsAreInputPaths ==
  tree.called =>
    /\ ~tree.threw
    /\ leafIds(tree.value) = Range(files)

----------------------------------------------------------------------------
(* C3 *)

namesDiffer(siblings) ==
  \A i, j \in 1..Len(siblings) : i # j => siblings[i].name # siblings[j].name

----------------------------------------------------------------------------
(* C4 *)

nonEmptySegments(path) == SelectSeq(split(path, Slash), LAMBDA part : Len(part) > 0)

\* C4 as stated: the root TreeFolder is named by the last non-empty segment
\* of rootDirectory, and '/' when rootDirectory has no non-empty segment.
C4_RootNamedByLastNonEmptySegment ==
  treeReturned =>
    LET segments == nonEmptySegments(tree.rootDirectory)
    IN tree.value.name =
         (IF Len(segments) > 0 THEN segments[Len(segments)] ELSE <<Slash>>)

----------------------------------------------------------------------------
(* C5 *)

RECURSIVE distinctInOrder(_)
distinctInOrder(seq) ==
  IF Len(seq) = 0 THEN <<>>
  ELSE LET front == distinctInOrder(SubSeq(seq, 1, Len(seq) - 1))
           last == seq[Len(seq)]
       IN IF last \in Range(front) THEN front ELSE Append(front, last)

\* the input paths that pass through the folder whose segments are `prefix`
\* (they have further directory segments below it), in input order
pathsThrough(prefix, fs) ==
  SelectSeq(fs, LAMBDA p :
    LET parts == split(p, Slash)
    IN Len(parts) > Len(prefix) + 1 /\ SubSeq(parts, 1, Len(prefix)) = prefix)

\* the input paths whose file lies directly in that folder, in input order
pathsIn(prefix, fs) ==
  SelectSeq(fs, LAMBDA p :
    LET parts == split(p, Slash)
    IN Len(parts) = Len(prefix) + 1 /\ SubSeq(parts, 1, Len(prefix)) = prefix)

\* the names of the folders directly under that folder, in the order the
\* scan of the input first meets them
foldersUnder(prefix, fs) ==
  LET through == pathsThrough(prefix, fs)
  IN distinctInOrder([i \in 1..Len(through) |->
                        split(through[i], Slash)[Len(prefix) + 1]])

RECURSIVE orderedAsDiscovered(_, _, _)
orderedAsDiscovered(node, prefix, fs) ==
  LET names == foldersUnder(prefix, fs)
      direct == pathsIn(prefix, fs)
  IN /\ Len(node.children) = Len(names) + Len(direct)
     /\ \A i \in 1..Len(names) :
          /\ isFolder(node.children[i])
          /\ node.children[i].name = names[i]
          /\ orderedAsDiscovered(node.children[i], Append(prefix, names[i]), fs)
     /\ \A i \in 1..Len(direct) :
          /\ ~isFolder(node.children[Len(names) + i])
          /\ node.children[Len(names) + i].id = direct[i]

\* C5 as stated: in every TreeFolder of buildTree's tree, `children` lists
\* the nested folders first, in the order their names were first met under
\* that parent while scanning the input, and then the files in input order.
C5_ChildrenInDiscoveryOrder ==
  treeReturned => orderedAsDiscovered(tree.value, <<>>, files)

----------------------------------------------------------------------------
(* C6 *)

\* C6: in a forest returned by makeFileHierarchy, a FileNode whose
\* `relative` is an input path with k >= 1 directory segments before its
\* file segment is enclosed by exactly k FolderNodes, counted from the top
\* level down to its direct parent.
C6_FileDepthIsDirectoryCount ==
  forestReturned =>
    \A p \in Range(files) :
      isNestedFile(p) =>
        \A e \in Range(forestFileNodes(forest.value)) :
          e.node.relative = p => Len(e.chain) = Len(split(p, Slash)) - 1

\* C6 witness: a returned forest holds the FileNode of an input path two
\* folders deep, under a chain of two FolderNodes.
C6_Witness ==
  /\ forestReturned
  /\ \E e \in Range(forestFileNodes(forest.value)) :
       /\ e.node.relative \in Range(files)
       /\ Len(split(e.node.relative, Slash)) = 3
       /\ Len(e.chain) = 2

----------------------------------------------------------------------------
(* C7 *)

exampleCalled ==
  /\ files = ExampleFiles
  /\ folders.called
  /\ fileNodes.called /\ ~fileNodes.threw
  /\ forest.called /\ ~forest.threw

ExampleFolders ==
  { Str_foo, P(<<Str_foo, Str_y>>), P(<<Str_foo, Str_bar>>),
    Str_a, P(<<Str_a, Str_b>>), P(<<Str_a, Str_b, Str_c>>) }

FolderNode(name, relative, nodes) ==
  [name |-> name, files |-> nodes, type |-> "folder", relative |-> relative]

FileNode(name, relative) ==
  [type |-> "file", name |-> name, relative |-> relative]

\* the forest of the example: foo holds the folder y (with bar.js) and the
\* empty folder bar; a holds b, which holds c
ExampleForest ==
  << FolderNode(Str_foo, Str_foo,
       << FolderNode(Str_y, P(<<Str_foo, Str_y>>),
            << FileNode(Str_barjs, P(<<Str_foo, Str_y, Str_barjs>>)) >>),
          FolderNode(Str_bar, P(<<Str_foo, Str_bar>>), <<>>) >>),
     FolderNode(Str_a, Str_a,
       << FolderNode(Str_b, P(<<Str_a, Str_b>>),
            << FolderNode(Str_c, P(<<Str_a, Str_b, Str_c>>), <<>>) >>) >>) >>

\* C7 as stated: on ['foo.js', 'foo/y/bar.js', 'foo/bar', 'a/b/c'] the
\* folders found are foo, foo/y, foo/bar, a, a/b, a/b/c; the forest has the
\* top-level folders foo and a, foo holding the folder y (with the file
\* bar.js) and a file bar, a holding b holding c; and the root-level file
\* list is ['foo.js'].
C7_ExampleWithFileBar ==
  exampleCalled =>
    /\ Range(folders.value) = ExampleFolders
    /\ Len(forest.value) = 2
    /\ forest.value[1].type = "folder" /\ forest.value[1].name = Str_foo
    /\ forest.value[2].type = "folder" /\ forest.value[2].name = Str_a
    /\ \E n \in Range(forest.value[1].files) :
         /\ n.type = "folder" /\ n.name = Str_y
         /\ Len(n.files) = 1
         /\ n.files[1].type = "file" /\ n.files[1].name = Str_barjs
    /\ \E n \in Range(forest.value[1].files) : n.type = "file" /\ n.name = Str_bar
    /\ \E n \in Range(forest.value[2].files) :
         /\ n.type = "folder" /\ n.name = Str_b
         /\ \E m \in Range(n.files) : m.type = "folder" /\ m.name = Str_c
    /\ lookup(fileNodes.value, <<Slash>>).value = <<Str_foojs>>

\* C7 amended: as stated, except that bar is not a file of foo: 'foo/bar'
\* has no '.', so foo holds the folder y (with the file bar.js) and an
\* empty folder bar, in that order.
C7_ExampleWithFolderBar ==
  exampleCalled =>
    /\ folders.value = << Str_foo, P(<<Str_foo, Str_y>>), P(<<Str_foo, Str_bar>>),
                          Str_a, P(<<Str_a, Str_b>>), P(<<Str_a, Str_b, Str_c>>) >>
    /\ forest.value = ExampleForest
    /\ lookup(fileNodes.value, <<Slash>>).value = <<Str_foojs>>

\* C7 witness: the three functions were called on the example.
C7_Witness == exampleCalled

----------------------------------------------------------------------------
(* C8 *)

\* C8: on the empty input makeFileHierarchy returns the empty list, and
\* buildTree([], 'root') returns the TreeFolder with id 'root', name 'root'
\* and no children; neither throws.
C8_EmptyInput ==
  files = <<>> =>
    /\ forest.called => (~forest.threw /\ forest.value = <<>>)
    /\ (tree.called /\ tree.rootDirectory = Str_root) =>
         /\ ~tree.threw
         /\ tree.value = [id |-> Str_root, name |-> Str_root, children |-> <<>>]

\* C8 witness: both strategies were called on the empty input, buildTree
\* with the root directory 'root'.
C8_Witness ==
  /\ files = <<>>
  /\ forest.called
  /\ tree.called /\ tree.rootDirectory = Str_root

----------------------------------------------------------------------------
(* C9 *)

\* C9 as stated: in a forest returned by makeFileHierarchy every folder
\* path found by getAllFolders is the `relative` of exactly one FolderNode,
\* and a FolderNode whose `relative` holds a '/' lies directly in the
\* FolderNode whose `relative` is that path without its last segment.
C9_FoldersNestUnderTheirParent ==
  forestReturned =>
    /\ \A dir \in Range(getAllFolders(files)) :
         count(forestFolderNodes(forest.value), LAMBDA e : e.node.relative = dir) = 1
    /\ \A e \in Range(forestFolderNodes(forest.value)) :
         includes(e.node.relative, Slash) =>
           /\ Len(e.chain) > 0
           /\ e.chain[Len(e.chain)] = parentPath(e.node.relative)

----------------------------------------------------------------------------
(* C10 *)

\* FolderNode{name, relative, files} as TreeFolder{name, id, children},
\* FileNode{name, relative} as TreeFile{name, id}
RECURSIVE asTreeNode(_)
asTreeNode(node) ==
  IF node.type = "file"
  THEN [id |-> node.relative, name |-> node.name]
  ELSE [id |-> node.relative,
        name |-> node.name,
        children |-> [i \in 1..Len(node.files) |-> asTreeNode(node.files[i])]]

fileTerminated(fs) ==
  /\ \A i, j \in 1..Len(fs) : i # j => fs[i] # fs[j]
  /\ \A i \in 1..Len(fs) : isNestedFile(fs[i])

\* C10 as stated: on pairwise distinct paths that each have a directory
\* segment and a last segment holding a '.', the forest of
\* makeFileHierarchy is the `children` list of buildTree's root, node for
\* node and in the same order (whenever both return).
C10_StrategiesAgree ==
  (fileTerminated(files) /\ forestReturned /\ treeReturned) =>
    [i \in 1..Len(forest.value) |-> asTreeNode(forest.value[i])]
      = tree.value.children

====
